---- MODULE Spec2Model ----
(***************************************************************************)
(* Model of unwind.py: the rotctld protocol client (class ROTCTLD) and the *)
(* stepped homing loop of __main__.                                        *)
(*                                                                         *)
(* Angles are integers counting 1/50 of a degree, so that the one-decimal  *)
(* wire format "%3.1f" is a real rounding (a tenth is 5 units and no value *)
(* lies on a rounding tie).  Times are whole seconds.                      *)
(***************************************************************************)
EXTENDS Integers, Sequences, FiniteSets, TLC

VARIABLES
    cfg,      \* the run's inputs: command line arguments, or the arguments of a direct set_azel call
    pc,       \* position of the single thread of control
    now,      \* time.time()
    start,    \* __main__ _start_time
    mstart,   \* set_azel _start_time
    pos,      \* __main__ (_az, _el): result of the loop's own get_azel; <<>> is (None, None)
    new_az,   \* __main__ _new_az: <<>> while the name is unbound, <<v>> once assigned
    poll,     \* set_azel (_az, _el): result of the latest poll inside the blocking wait
    sent,     \* position commands written to the socket, oldest first
    req,      \* the latest request written to the socket: its kind and the time it was sent
    posrx,    \* the latest response read for a 'p' request (sequence of its numeric lines)
    ack,      \* the latest response read for a '_' or 'P' request
    ret,      \* outcome of the latest set_azel call
    closed,   \* ROTCTLD.close has been called
    outcome,  \* how the session ended
    err,      \* the error that ended the session or the call
    crashed,  \* the exception that left __main__ uncaught, "" if none
    created,  \* the ROTCTLD object (and its socket) has been created
    dev       \* position of the simulated rotator

vars == <<cfg, pc, now, start, mstart, pos, new_az, poll, sent, req, posrx, ack,
          ret, closed, outcome, err, crashed, created, dev>>

----------------------------------------------------------------------------
(* Units and constants of the program *)

Deg(d) == 50 * d

Abs(x) == IF x < 0 THEN -x ELSE x

\* ROTCTLD.__init__ timeout=5: socket timeout of one exchange, in seconds
IoTimeout == 5

\* __main__ passes poll_rate = 3.0
PollRate == 3

\* ROTCTLD.__init__ movement_timeout=120.0 (never overridden by __main__)
MovementTimeout == 120

\* largest delay, in seconds, of an exchange that is answered (at most IoTimeout in the program)
MaxLag == 1

\* recv timed out: send_command returns None
NoResponse == "None"

\* get_azel's (None, None)
NoPosition == <<>>

----------------------------------------------------------------------------
(* ROTCTLD: pure parts *)

\* "%3.1f": round to one decimal place (a tenth is 5 units; residues 1,2 round down, 3,4 up)
Fmt1(x) == LET r == x % 5 IN IF r <= 2 THEN x - r ELSE x + (5 - r)

SetAzelElNoFloor(elevation) == IF elevation > Deg(90) THEN Deg(90) ELSE elevation

\* set_azel lines 89-92
SetAzelEl(elevation) ==
    IF elevation > Deg(90) THEN Deg(90)
    ELSE IF elevation < 0 THEN 0
    ELSE elevation

\* set_azel lines 94-95
SetAzelAz(azimuth) == IF azimuth > Deg(360) THEN azimuth % Deg(360) ELSE azimuth

\* set_azel line 98: the command as written to the socket, with the arguments it was built from
Command(azimuth, elevation, blocking) ==
    [az |-> azimuth, el |-> elevation, blocking |-> blocking,
     waz |-> Fmt1(SetAzelAz(azimuth)), wel |-> Fmt1(SetAzelEl(elevation))]

\* set_azel line 103: "RPRT 0" in response
Accepted(response) == response = "RPRT 0"

SetAzelReplyNoWait(response, blocking) ==
    IF response = NoResponse THEN "raised"
    ELSE IF ~Accepted(response) THEN "False"
    ELSE "True"

\* set_azel lines 99-109: what the call does once the response is read
\*   "raised": TypeError, the membership test on None; "wait": enter the polling loop
SetAzelReply(response, blocking) ==
    IF response = NoResponse THEN "raised"
    ELSE IF ~Accepted(response) THEN "False"
    ELSE IF ~blocking THEN "True"
    ELSE "wait"

GetAzelDefault(response) == IF Len(response) >= 2 THEN <<response[1], response[2]>> ELSE <<0, 0>>

\* get_azel lines 144-151: two parseable lines give a position, anything else (None, None)
GetAzel(response) == IF Len(response) >= 2 THEN <<response[1], response[2]>> ELSE NoPosition

GetModelAssumed(response) == "model"

\* get_model / connect line 56
GetModel(response) == response

SleepSkipped(t, seconds) == t

\* set_azel line 117: time.sleep(self.poll_rate)
Sleep(t, seconds) == t + seconds

MoveGuardInclusive(t, t0, limit) == (t - t0) <= limit

\* set_azel line 116
MoveGuard(t, t0, limit) == (t - t0) < limit

\* set_azel line 127, with azimuth/elevation the sanitised locals
Within(azimuth, elevation, p, threshold) ==
    /\ Abs(azimuth - (p[1] % Deg(360))) < threshold
    /\ Abs(elevation - p[2]) < threshold

----------------------------------------------------------------------------
(* __main__: pure parts *)

NotEnoughTimeInverted(time_to_obs, homing_timeout) == time_to_obs > homing_timeout

\* line 264
NotEnoughTime(time_to_obs, homing_timeout) == time_to_obs < homing_timeout

\* line 287
LoopGuard(t, t0, homing_timeout) == (t - t0) < homing_timeout

\* line 296
Arrived(home_az, home_el, p, threshold) ==
    /\ Abs(home_az - p[1]) < threshold
    /\ Abs(home_el - p[2]) < threshold

FinalCommandBlocking(home_az, home_el) == Command(home_az, home_el, TRUE)

\* line 299
FinalCommand(home_az, home_el) == Command(home_az, home_el, FALSE)

\* lines 302-314: the value of _new_az before line 317; old is the binding left by earlier iterations
NewAz(az, home_az, step, old) ==
    IF az < home_az
        THEN IF az + step > home_az THEN <<home_az>> ELSE <<az + step>>
    ELSE IF az > home_az
        THEN IF az - step < home_az THEN <<home_az>> ELSE <<az - step>>
    ELSE old

AfterSetAzelIgnoring(result) == "loop"

\* lines 320-331: where the loop goes after set_azel returned (or raised)
AfterSetAzel(result) == IF result = "True" THEN "loop" ELSE "break"

----------------------------------------------------------------------------
(* Inputs *)

Session(home_az, home_el, threshold, step, homing_timeout, devkind, readAz, readEl) ==
    [mode |-> "session", home_az |-> home_az, home_el |-> home_el,
     threshold |-> threshold, step |-> step, homing_timeout |-> homing_timeout,
     blocking |-> TRUE, dev |-> devkind, readAz |-> readAz, readEl |-> readEl,
     station |-> <<>>, timeout |-> 120, dev0 |-> <<0, 0>>]

DirectCall(azimuth, elevation, blocking, readAz, readEl) ==
    [mode |-> "call", home_az |-> azimuth, home_el |-> elevation,
     threshold |-> Deg(5), step |-> 0, homing_timeout |-> 0,
     blocking |-> blocking, dev |-> "free", readAz |-> readAz, readEl |-> readEl,
     station |-> <<>>, timeout |-> 120, dev0 |-> <<0, 0>>]

\* the defaults of the command line, home position (90, 45), rotator that reaches every commanded position
ScenarioA == Session(Deg(90), Deg(45), Deg(10), Deg(90), 180, "ideal", {}, {})

\* --home_azimuth 270 --movement_threshold 5 --azimuth_step 45, same rotator
ScenarioB == Session(Deg(270), 0, Deg(5), Deg(45), 180, "ideal", {}, {})

\* a rotator that answers anything: near and far readings, both directions of travel
FreeNear == Session(Deg(90), Deg(45), Deg(10), Deg(45), 3, "free",
                    {Deg(90), Deg(135)}, {0, Deg(45)})

\* extended-travel target with an out-of-range elevation
FreeFar == Session(Deg(400), -Deg(15), Deg(10), Deg(90), 4, "free",
                   {Deg(350), Deg(400)}, {0})

CallAz == {2, Deg(360) - 2, Deg(360), Deg(360) + 2, Deg(400), Deg(720) - 1}

CallEl == {-Deg(15), Deg(45) + 1, Deg(120)}

Calls == {DirectCall(a, -Deg(15), b, {0, Deg(40)}, {0}) : a \in CallAz, b \in BOOLEAN}
         \cup {DirectCall(2, e, b, {0, Deg(40)}, {0}) : e \in CallEl, b \in BOOLEAN}

\* --station_id given: what get_next_rise_azimuth returned, <<rise azimuth, seconds to the observation>>
Scheduled(c, lookup) == [c EXCEPT !.station = <<lookup>>]

\* the rotator's position when the run starts
From(c, p) == [c EXCEPT !.dev0 = p]

\* next observation rises at 120 degrees in 30 s, homing timeout 180 s
ScheduleShort == Scheduled(ScenarioA, <<Deg(120), 30>>)

\* next observation rises at 120 degrees in 600 s
ScheduleLong == Scheduled(ScenarioA, <<Deg(120), 600>>)

\* station given, no observation scheduled: (None, None)
ScheduleNone == Scheduled(ScenarioA, <<>>)

\* the rotator already at the target azimuth, elevation still to go
ScenarioEqual == From(ScenarioA, <<Deg(90), 0>>)

\* a rotator wound up beyond 360 degrees, to be brought back
ScenarioBack == From(ScenarioB, <<Deg(450), Deg(30)>>)

\* --home_azimuth 360, rotator 5 degrees short of it
ScenarioWrap == From(Session(Deg(360), 0, Deg(10), Deg(90), 180, "ideal", {}, {}), <<Deg(355), 0>>)

\* --home_azimuth 400, rotator that reports within [0, 360) sitting at 40 degrees
ScenarioExtended == From(Session(Deg(400), 0, Deg(10), Deg(90), 180, "ideal", {}, {}), <<Deg(40), 0>>)

\* set_azel(..., timeout=t)
WithTimeout(c, t) == [c EXCEPT !.timeout = t]

ShortCall == WithTimeout(DirectCall(Deg(400), -Deg(15), TRUE, {0, Deg(40)}, {0}), 6)

Configs == {ScenarioA, ScenarioB, FreeNear, FreeFar,
            ScheduleShort, ScheduleLong, ScheduleNone,
            ScenarioEqual, ScenarioBack, ScenarioWrap, ScenarioExtended, ShortCall} \cup Calls

----------------------------------------------------------------------------
(* The rotator behind rotctld *)

PosAnswers ==
    IF cfg.dev = "ideal" THEN {dev}
    ELSE {<<a, e>> : a \in cfg.readAz, e \in cfg.readEl} \cup {<<0>>, <<>>}

PosLags(r) == IF r = <<>> THEN {IoTimeout} ELSE IF cfg.dev = "ideal" THEN {0} ELSE 0..MaxLag

CmdAnswers == IF cfg.dev = "ideal" THEN {"RPRT 0"} ELSE {"RPRT 0", "RPRT -1", NoResponse}

ModelAnswers == IF cfg.dev = "ideal" THEN {"model"} ELSE {"model", NoResponse}

CmdLags(r) == IF r = NoResponse THEN {IoTimeout} ELSE IF cfg.dev = "ideal" THEN {0} ELSE 0..MaxLag

\* an accepted command moves the simulated rotator to the commanded position
Moved(r, c) == IF Accepted(r) THEN <<c.waz, c.wel>> ELSE dev

----------------------------------------------------------------------------
(* State machine *)

Init ==
    /\ cfg \in Configs
    /\ pc = IF cfg.mode = "session" THEN "resolve" ELSE "connect"
    /\ now = 0
    /\ start = 0
    /\ mstart = 0
    /\ pos = NoPosition
    /\ new_az = <<>>
    /\ poll = NoPosition
    /\ sent = <<>>
    /\ req = [kind |-> "", at |-> 0]
    /\ posrx = <<>>
    /\ ack = ""
    /\ ret = ""
    /\ closed = FALSE
    /\ outcome = ""
    /\ err = ""
    /\ crashed = ""
    /\ created = FALSE
    /\ dev = cfg.dev0

\* lines 256-271: the target of the run; sys.exit(0) when the observation is too close
Resolve ==
    /\ pc = "resolve"
    /\ IF cfg.station # <<>> /\ cfg.station[1] # <<>>
         THEN IF NotEnoughTime(cfg.station[1][2], cfg.homing_timeout)
                THEN /\ pc' = "stopped"
                     /\ outcome' = "NotEnoughTime"
                     /\ cfg' = cfg
                ELSE /\ pc' = "connect"
                     /\ cfg' = [cfg EXCEPT !.home_az = cfg.station[1][1]]
                     /\ outcome' = outcome
         ELSE /\ pc' = "connect"
              /\ UNCHANGED <<cfg, created, outcome>>
    /\ UNCHANGED <<now, start, mstart, pos, new_az, poll, sent, req, posrx, ack, ret,
                   closed, err, crashed, created, dev>>

\* ROTCTLD.__init__ / connect (lines 46-61) and, on success, __main__ line 282
CheckModel ==
    /\ pc = "connect"
    /\ \E r \in ModelAnswers : \E d \in CmdLags(r) :
        /\ req' = [kind |-> "_", at |-> now]
        /\ ack' = r
        /\ now' = now + d
        /\ IF GetModel(r) = NoResponse
             THEN /\ closed' = TRUE
                  /\ crashed' = "Timeout!"
                  /\ err' = "ConnectionFailure"
                  /\ pc' = "stopped"
                  /\ start' = start
             ELSE /\ pc' = IF cfg.mode = "session" THEN "loop" ELSE "call"
                  /\ start' = now'
                  /\ UNCHANGED <<closed, crashed, err>>
    /\ created' = TRUE
    /\ UNCHANGED <<cfg, mstart, pos, new_az, poll, sent, posrx, ret, outcome, dev>>

\* line 287 false, then lines 335-336
LoopExit ==
    /\ pc = "loop"
    /\ ~LoopGuard(now, start, cfg.homing_timeout)
    /\ closed' = TRUE
    /\ outcome' = "Expired"
    /\ pc' = "stopped"
    /\ UNCHANGED <<cfg, created, now, start, mstart, pos, new_az, poll, sent, req, posrx, ack,
                   ret, err, crashed, dev>>

\* lines 287-294 (and 335 when the position is unavailable)
Query ==
    /\ pc = "loop"
    /\ LoopGuard(now, start, cfg.homing_timeout)
    /\ \E r \in PosAnswers : \E d \in PosLags(r) :
        /\ req' = [kind |-> "p", at |-> now]
        /\ posrx' = r
        /\ now' = now + d
        /\ pos' = GetAzel(r)
        /\ IF pos' = NoPosition
             THEN /\ outcome' = "Failed"
                  /\ err' = "CommunicationLost"
                  /\ closed' = TRUE
                  /\ pc' = "stopped"
             ELSE /\ pc' = "decide"
                  /\ UNCHANGED <<outcome, err, closed>>
    /\ UNCHANGED <<cfg, created, start, mstart, new_az, poll, sent, ack, ret, crashed, dev>>

\* lines 296-300, then 335 unless set_azel raised
Final ==
    /\ pc = "decide"
    /\ Arrived(cfg.home_az, cfg.home_el, pos, cfg.threshold)
    /\ \E r \in CmdAnswers : \E d \in CmdLags(r) :
        LET c == FinalCommand(cfg.home_az, cfg.home_el) IN
        /\ outcome' = "Done"
        /\ sent' = Append(sent, c)
        /\ req' = [kind |-> "P", at |-> now]
        /\ ack' = r
        /\ now' = now + d
        /\ dev' = Moved(r, c)
        /\ ret' = SetAzelReply(r, c.blocking)
        /\ IF ret' = "raised"
             THEN /\ crashed' = "TypeError"
                  /\ UNCHANGED <<closed, mstart>>
                  /\ pc' = "stopped"
             ELSE IF ret' = "wait"
             THEN /\ mstart' = now'
                  /\ pc' = "wait"
                  /\ UNCHANGED <<closed, crashed>>
             ELSE /\ closed' = TRUE
                  /\ pc' = "stopped"
                  /\ UNCHANGED <<crashed, mstart>>
    /\ UNCHANGED <<cfg, created, start, pos, new_az, poll, posrx, err>>

\* lines 302-317 when neither branch binds _new_az and no earlier iteration did: NameError
StepUnbound ==
    /\ pc = "decide"
    /\ ~Arrived(cfg.home_az, cfg.home_el, pos, cfg.threshold)
    /\ NewAz(pos[1], cfg.home_az, cfg.step, new_az) = <<>>
    /\ crashed' = "NameError"
    /\ pc' = "stopped"
    /\ UNCHANGED <<cfg, created, now, start, mstart, pos, new_az, poll, sent, req, posrx, ack,
                   ret, closed, outcome, err, dev>>

\* lines 302-331 up to the response of the stepping command
Step ==
    /\ pc = "decide"
    /\ ~Arrived(cfg.home_az, cfg.home_el, pos, cfg.threshold)
    /\ NewAz(pos[1], cfg.home_az, cfg.step, new_az) # <<>>
    /\ \E r \in CmdAnswers : \E d \in CmdLags(r) :
        LET m == NewAz(pos[1], cfg.home_az, cfg.step, new_az)[1] % Deg(360)
            c == Command(m, cfg.home_el, TRUE)
        IN
        /\ new_az' = <<m>>
        /\ sent' = Append(sent, c)
        /\ req' = [kind |-> "P", at |-> now]
        /\ ack' = r
        /\ now' = now + d
        /\ dev' = Moved(r, c)
        /\ ret' = SetAzelReply(r, TRUE)
        /\ IF ret' = "wait"
             THEN /\ mstart' = now'
                  /\ pc' = "wait"
                  /\ UNCHANGED <<closed, outcome, err>>
             ELSE /\ mstart' = mstart
                  /\ IF AfterSetAzel(ret') = "loop"
                       THEN /\ pc' = "loop"
                            /\ UNCHANGED <<closed, outcome, err>>
                       ELSE /\ outcome' = "Failed"
                            /\ err' = IF ret' = "raised" THEN "TypeError" ELSE "RejectedCommand"
                            /\ closed' = TRUE
                            /\ pc' = "stopped"
    /\ UNCHANGED <<cfg, created, start, pos, poll, posrx, crashed>>

\* where a set_azel call that has finished its blocking wait hands control
Return(result, error) ==
    /\ ret' = result
    /\ IF cfg.mode = "call"
         THEN /\ pc' = "returned"
              /\ err' = error
              /\ UNCHANGED <<closed, outcome>>
         ELSE IF AfterSetAzel(result) = "loop"
         THEN /\ pc' = IF outcome = "Done" THEN "stopped" ELSE "loop"
              /\ closed' = (outcome = "Done")
              /\ UNCHANGED <<outcome, err>>
         ELSE /\ outcome' = "Failed"
              /\ err' = error
              /\ closed' = TRUE
              /\ pc' = "stopped"

\* set_azel lines 116-131: one turn of the polling loop
Poll ==
    /\ pc = "wait"
    /\ MoveGuard(now, mstart, MovementTimeout)
    /\ \E r \in PosAnswers : \E d \in PosLags(r) :
        LET c == sent[Len(sent)] IN
        /\ req' = [kind |-> "p", at |-> Sleep(now, PollRate)]
        /\ posrx' = r
        /\ now' = Sleep(now, PollRate) + d
        /\ poll' = GetAzel(r)
        /\ IF poll' = NoPosition
             THEN Return("raised", "CommunicationLost")
             ELSE IF Within(SetAzelAz(c.az), SetAzelEl(c.el), poll', cfg.threshold)
             THEN Return("True", err)
             ELSE UNCHANGED <<pc, ret, closed, outcome, err>>
    /\ UNCHANGED <<cfg, created, start, mstart, pos, new_az, sent, ack, crashed, dev>>

\* set_azel line 116 false, line 134
MoveTimeout ==
    /\ pc = "wait"
    /\ ~MoveGuard(now, mstart, MovementTimeout)
    /\ Return("raised", "MovementTimeout")
    /\ UNCHANGED <<cfg, created, now, start, mstart, pos, new_az, poll, sent, req, posrx, ack,
                   crashed, dev>>

\* a direct caller of ROTCTLD.set_azel(azimuth, elevation, blocking): lines 86-109
Call ==
    /\ pc = "call"
    /\ \E r \in CmdAnswers : \E d \in CmdLags(r) :
        LET c == Command(cfg.home_az, cfg.home_el, cfg.blocking) IN
        /\ sent' = Append(sent, c)
        /\ req' = [kind |-> "P", at |-> now]
        /\ ack' = r
        /\ now' = now + d
        /\ dev' = Moved(r, c)
        /\ ret' = SetAzelReply(r, c.blocking)
        /\ IF ret' = "wait"
             THEN /\ mstart' = now'
                  /\ pc' = "wait"
                  /\ err' = err
             ELSE /\ mstart' = mstart
                  /\ pc' = "returned"
                  /\ err' = IF ret' = "raised" THEN "TypeError" ELSE err
    /\ UNCHANGED <<cfg, created, start, pos, new_az, poll, posrx, closed, outcome, crashed>>

\* exit status of the process once it has stopped: sys.exit(0) at line 266 and the end
\* of the script give 0, an uncaught exception gives 1
ExitStatus == IF crashed # "" THEN 1 ELSE 0

Next ==
    \/ Resolve
    \/ CheckModel
    \/ LoopExit
    \/ Query
    \/ Final
    \/ StepUnbound
    \/ Step
    \/ Poll
    \/ MoveTimeout
    \/ Call

Spec == Init /\ [][Next]_vars

\* the single thread keeps running: sleeps end and every recv returns within the socket timeout
FairSpec == Spec /\ WF_vars(Next)

----------------------------------------------------------------------------
(* Properties *)

InSession == cfg.mode = "session"

Last(s) == s[Len(s)]

Clamp(x, lo, hi) == IF x < lo THEN lo ELSE IF x > hi THEN hi ELSE x

\* the multiple of a tenth of a degree nearest to x
Round1(x) == CHOOSE t \in (x - 2)..(x + 2) : t % 5 = 0

\* the loop is about to issue a stepping command
Stepping ==
    /\ InSession
    /\ pc = "decide"
    /\ ~Arrived(cfg.home_az, cfg.home_el, pos, cfg.threshold)
    /\ NewAz(pos[1], cfg.home_az, cfg.step, new_az) # <<>>

\* C1: in every stepping iteration the azimuth the step rule hands on (before the
\* modulo of line 317) is at most one step size away from the reported azimuth, and
\* when the remaining distance is at most one step it is exactly the remaining distance.
StepBound ==
    Stepping =>
        LET delta == NewAz(pos[1], cfg.home_az, cfg.step, new_az)[1] - pos[1]
            remaining == Abs(cfg.home_az - pos[1])
        IN /\ Abs(delta) <= cfg.step
           /\ (remaining <= cfg.step => Abs(delta) = remaining)

\* C2: a session that has stopped after its transport was created, whatever the way,
\* has closed its connection.
ConnectionReleased == (InSession /\ created /\ pc = "stopped") => closed

\* C3: once a position query (the loop's own or a poll of a blocking move) got an
\* unparseable or missing response, the session is stopped as Failed with the
\* connection closed, and that query is the last request that was sent.
CommunicationLossAborts ==
    (InSession /\ req.kind = "p" /\ Len(posrx) < 2) =>
        (pc = "stopped" /\ outcome = "Failed" /\ closed /\ crashed = "")

CommunicationLossWitness ==
    /\ InSession /\ req.kind = "p" /\ Len(posrx) < 2
    /\ pc = "stopped" /\ outcome = "Failed" /\ ret = "raised" /\ Len(sent) = 2

\* C4: a blocking move whose movement timeout has elapsed without arrival does nothing
\* but fail: the session stops as Failed with a movement timeout, the connection is
\* closed, and no request (stepping, corrective or poll) is sent any more.
StepTimeoutAborts ==
    [][(InSession /\ pc = "wait" /\ now - mstart >= MovementTimeout) =>
        (/\ pc' = "stopped" /\ outcome' = "Failed" /\ err' = "MovementTimeout"
         /\ closed' /\ sent' = sent /\ req' = req)]_vars

StepTimeoutWitness ==
    InSession /\ pc = "stopped" /\ outcome = "Failed" /\ err = "MovementTimeout" /\ closed

\* C5: from a queried position within the threshold of the target on both axes the
\* controller does one thing: it sends one non-blocking command with the target's own
\* azimuth and elevation, and stops as Done.
ArrivalIdempotent ==
    [][(/\ InSession /\ pc = "decide"
        /\ Abs(cfg.home_az - pos[1]) < cfg.threshold
        /\ Abs(cfg.home_el - pos[2]) < cfg.threshold) =>
        (/\ Len(sent') = Len(sent) + 1
         /\ Last(sent').az = cfg.home_az /\ Last(sent').el = cfg.home_el
         /\ ~Last(sent').blocking
         /\ pc' = "stopped" /\ outcome' = "Done")]_vars

ArrivalWitness ==
    /\ InSession /\ pc = "stopped" /\ outcome = "Done" /\ Len(sent) = 1
    /\ ~sent[1].blocking /\ Abs(cfg.home_az - pos[1]) < cfg.threshold

StepAzimuths == [i \in 1..Len(SelectSeq(sent, LAMBDA c : c.blocking)) |->
                    SelectSeq(sent, LAMBDA c : c.blocking)[i].waz]

ScenarioBSteps == <<Deg(45), Deg(90), Deg(135), Deg(180), Deg(225), Deg(270)>>

\* C6: the loop is at a point where it may command again only if the latest command was
\* a stepping command whose blocking wait returned True on a readback within the
\* threshold of it; and in scenario B the stepping azimuths are 45, 90, 135, 180, 225,
\* 270, in that order, all six once the session has stopped.
StepsConfirmedInOrder ==
    /\ (InSession /\ pc \in {"loop", "decide"} /\ Len(sent) > 0) =>
          /\ Last(sent).blocking
          /\ ret = "True"
          /\ poll # NoPosition
          /\ Abs(SetAzelAz(Last(sent).az) - (poll[1] % Deg(360))) < cfg.threshold
          /\ Abs(SetAzelEl(Last(sent).el) - poll[2]) < cfg.threshold
    /\ cfg = ScenarioB =>
          /\ Len(StepAzimuths) <= 6
          /\ StepAzimuths = SubSeq(ScenarioBSteps, 1, Len(StepAzimuths))
          /\ (pc = "stopped" => StepAzimuths = ScenarioBSteps)

ScenarioBWitness ==
    cfg = ScenarioB /\ pc = "stopped" /\ outcome = "Done" /\ Len(sent) = 7 /\ ret = "True"

\* C7 as stated: a command built from an azimuth in [0, 360) carries that azimuth
\* unmodified and the elevation clamped to [0, 90].
WireFieldsUnmodified ==
    \A i \in DOMAIN sent :
        (0 <= sent[i].az /\ sent[i].az < Deg(360)) =>
            /\ sent[i].waz = sent[i].az
            /\ sent[i].wel = Clamp(sent[i].el, 0, Deg(90))

\* C7 as amended: a command built from an azimuth in [0, 360) carries that azimuth
\* rounded to one decimal place, not reduced modulo 360, and the elevation clamped to
\* [0, 90] and rounded to one decimal place.
WireFieldsRounded ==
    \A i \in DOMAIN sent :
        (0 <= sent[i].az /\ sent[i].az < Deg(360)) =>
            /\ sent[i].waz = Round1(sent[i].az)
            /\ sent[i].wel = Round1(Clamp(sent[i].el, 0, Deg(90)))

WireFieldsWitness ==
    \E i \in DOMAIN sent :
        /\ 0 < sent[i].az /\ sent[i].az < Deg(360) /\ sent[i].az % 5 # 0
        /\ sent[i].el < 0 /\ sent[i].wel = 0

\* C8: a command built from an azimuth of 360 or more is the command built from that
\* azimuth modulo 360, and its blocking wait confirms on the same readbacks.
ModuloEquivalence ==
    /\ \A i \in DOMAIN sent :
          sent[i].az >= Deg(360) =>
              /\ sent[i].waz = Command(sent[i].az % Deg(360), sent[i].el, sent[i].blocking).waz
              /\ sent[i].wel = Command(sent[i].az % Deg(360), sent[i].el, sent[i].blocking).wel
    /\ (cfg.mode = "call" /\ cfg.home_az >= Deg(360) /\ req.kind = "p" /\ poll # NoPosition) =>
          ((ret = "True") <=>
              Within(SetAzelAz(cfg.home_az % Deg(360)), SetAzelEl(cfg.home_el), poll, cfg.threshold))

\* C9: every position query and position command of a session is sent before the
\* overall homing timeout, counted from the session's start time, has elapsed.
HardDeadline ==
    (InSession /\ req.kind \in {"p", "P"}) => req.at - start < cfg.homing_timeout

\* C10: when the response to a position command lacks the success token, no response
\* included, set_azel returns False without polling (the command stays the latest
\* request), and a session whose stepping command it was has stopped as Failed.
RejectedFailsFast ==
    (req.kind = "P" /\ ack # "RPRT 0") =>
        /\ ret = "False"
        /\ (InSession /\ Last(sent).blocking) =>
              (pc = "stopped" /\ outcome = "Failed" /\ closed)

Terminal == pc \in {"stopped", "returned"}

\* C11: every run reaches a terminal point: the session stops (done, failed, expired or
\* died) and every blocking move returns or fails, whatever the rotator answers.
Terminates == <>Terminal

TerminatesWitness ==
    /\ InSession /\ pc = "stopped" /\ outcome = "Expired" /\ Len(sent) > 0
    /\ now - start >= cfg.homing_timeout + MovementTimeout

\* C12: when the schedule lookup gave an azimuth and a time to the observation smaller
\* than the homing timeout, the run stops at once: no ROTCTLD object, no request, no
\* command, exit status 0.
AbortsBeforeConnecting ==
    (/\ InSession /\ cfg.station # <<>> /\ cfg.station[1] # <<>>
     /\ cfg.station[1][2] < cfg.homing_timeout /\ pc # "resolve") =>
        (/\ pc = "stopped" /\ ~created /\ ~closed /\ req.kind = "" /\ sent = <<>>
         /\ ExitStatus = 0)

AbortsWitness ==
    cfg = ScheduleShort /\ pc = "stopped" /\ outcome = "NotEnoughTime" /\ ~created

\* the elevation of the latest own reading is outside the threshold of the target's
ElevationOff == ~(Abs(cfg.home_el - pos[2]) < cfg.threshold)

\* C13: an iteration that read the target azimuth with the elevation outside the
\* threshold has sent a blocking command carrying the target azimuth modulo 360 and the
\* target elevation.
EqualAzimuthPolicy ==
    (/\ InSession /\ pos # NoPosition /\ pc # "decide"
     /\ pos[1] = cfg.home_az /\ ElevationOff) =>
        /\ Len(sent) > 0
        /\ Last(sent).blocking
        /\ Last(sent).waz = Round1(cfg.home_az % Deg(360))
        /\ Last(sent).wel = Round1(Clamp(cfg.home_el, 0, Deg(90)))

\* C14: every position command of a session, stepping or final, has its azimuth field
\* in [0, 360) and its elevation field in [0, 90].
WireInRange ==
    InSession =>
        \A i \in DOMAIN sent :
            /\ 0 <= sent[i].waz /\ sent[i].waz < Deg(360)
            /\ 0 <= sent[i].wel /\ sent[i].wel <= Deg(90)

\* C15: a blocking set_azel has returned True only with the command accepted and a
\* readback, taken inside its wait, whose azimuth modulo 360 and elevation are both
\* within the threshold of the sanitised commanded position.
ConfirmedByReadback ==
    (Len(sent) > 0 /\ Last(sent).blocking /\ ret = "True") =>
        /\ ack = "RPRT 0"
        /\ poll # NoPosition
        /\ Abs(SetAzelAz(Last(sent).az) - (poll[1] % Deg(360))) < cfg.threshold
        /\ Abs(Clamp(Last(sent).el, 0, Deg(90)) - poll[2]) < cfg.threshold

ConfirmedWitness ==
    /\ Len(sent) > 0 /\ Last(sent).blocking /\ ret = "True"
    /\ poll # NoPosition /\ poll[1] >= Deg(360)

\* C16: a set_azel call made with timeout t sends no poll once t has elapsed since the
\* start of its wait (the loop condition that let the poll through was read before t).
PerCallTimeout ==
    (cfg.mode = "call" /\ req.kind = "p") => (req.at - PollRate) - mstart < cfg.timeout

\* C17: with a target in range, a rotator that answers, accepts and reaches every
\* commanded position, and the default homing timeout, a session that has stopped is
\* Done and its last reading is within the threshold of the target on both axes.
HomingSucceeds ==
    (/\ InSession /\ cfg.dev = "ideal" /\ created /\ pc = "stopped"
     /\ 0 <= cfg.home_az /\ cfg.home_az < Deg(360)
     /\ 0 <= cfg.home_el /\ cfg.home_el <= Deg(90)) =>
        /\ outcome = "Done"
        /\ Abs(cfg.home_az - pos[1]) < cfg.threshold
        /\ Abs(cfg.home_el - pos[2]) < cfg.threshold

\* C18: with a target azimuth of 360 or more and a rotator reporting within [0, 360),
\* a reading of the target azimuth modulo 360 at the target elevation is followed by
\* Done, not by another stepping command.
ExtendedTravelReachable ==
    (/\ InSession /\ cfg.dev = "ideal" /\ cfg.home_az >= Deg(360)
     /\ pos = <<cfg.home_az % Deg(360), cfg.home_el>> /\ pc # "decide") =>
        outcome = "Done"

\* C19: the azimuth field of a stepping command differs from the azimuth reported at
\* the top of its iteration by at most the step size.
WireStepBound ==
    (InSession /\ req.kind = "P" /\ Len(sent) > 0 /\ Last(sent).blocking) =>
        Abs(Last(sent).waz - pos[1]) <= cfg.step

\* the latest request got no response within the socket timeout
Unanswered ==
    \/ req.kind = "p" /\ posrx = <<>>
    \/ req.kind \in {"_", "P"} /\ ack = NoResponse

\* C20: a request whose response did not arrive within the socket timeout is the last
\* request on its connection: the run is at a terminal point.
NoRequestAfterTimeout == Unanswered => Terminal

NoRequestAfterTimeoutWitness ==
    /\ InSession /\ req.kind = "P" /\ ack = NoResponse /\ Last(sent).blocking
    /\ pc = "stopped" /\ closed

====
